---- MODULE Spec2Model ----
(***************************************************************************)
(* A model of chem_calc_gui.py (src/main.py): the element-symbol-pair      *)
(* parser _split_elements_for_en, the electronegativity lookup             *)
(* _get_electronegativity, the handler calculate_en_difference with its    *)
(* "CO" special case and bond classification, the molecular-mass handler   *)
(* calculate_mm, and the two screens of ChemCalcApp.                       *)
(*                                                                         *)
(* Text is a sequence of one-character strings.  Electronegativity values  *)
(* are integers in hundredths of a Pauling unit (2.55 is 255); every value *)
(* of the element data has at most two decimals.  For every pair of values *)
(* of the table below the float computation abs(en1 - en2) of line 234     *)
(* rounds (:.2f) to the integer difference and falls on the same side of   *)
(* the thresholds 0.4 and 1.7 as the integer difference does of 40 and 170.*)
(***************************************************************************)
EXTENDS Integers, Sequences, FiniteSets, TLC

VARIABLES
    ELEMENTS,        \* molmass.elements.ELEMENTS: symbol -> eleneg (or None)
    compound_str,    \* the argument handed to the parser / the calculation
    split_result,    \* what _split_elements_for_en(compound_str) returned or raised
    calc_result,     \* what the EN calculation of compound_str produced
    en_difference,   \* the difference handed to the classifier
    bond_type,       \* the classifier's label
    current_index,   \* stacked_widget.currentIndex(): 0 the MM screen, 1 the EN screen
    mm_screen,       \* [input_field, result_label, style] of the MM screen
    en_screen,       \* [input_field, result_label, style] of the EN screen
    clipboard,       \* the text of QApplication.clipboard()
    last_calc        \* the handler that ran last and the branch it ended in

vars == <<ELEMENTS, compound_str, split_result, calc_result, en_difference,
          bond_type, current_index, mm_screen, en_screen, clipboard, last_calc>>

-----------------------------------------------------------------------------
(* Bounds of the model. *)

\* Longest text enumerated exhaustively over Alphabet (the parser's limit is 4).
MaxLen == 5
\* Largest difference handed to the classifier, in hundredths.
MaxDiff == 400

-----------------------------------------------------------------------------
(* Python's str methods, on sequences of characters. *)

UpperCase == <<"A","B","C","D","E","F","G","H","I","J","K","L","M",
               "N","O","P","Q","R","S","T","U","V","W","X","Y","Z">>
LowerCase == <<"a","b","c","d","e","f","g","h","i","j","k","l","m",
               "n","o","p","q","r","s","t","u","v","w","x","y","z">>

IsUpperChar(c) == \E i \in 1..26 : UpperCase[i] = c
IsLowerChar(c) == \E i \in 1..26 : LowerCase[i] = c
LetterIndex(c) == CHOOSE i \in 1..26 : UpperCase[i] = c \/ LowerCase[i] = c

upper(c) == IF IsLowerChar(c) THEN UpperCase[LetterIndex(c)] ELSE c
lower(c) == IF IsUpperChar(c) THEN LowerCase[LetterIndex(c)] ELSE c

\* str.isalpha(): non-empty and every character a letter.
isalpha(s) == Len(s) > 0 /\ \A i \in 1..Len(s) : IsUpperChar(s[i]) \/ IsLowerChar(s[i])

\* str.capitalize(): first character upper-cased, the rest lower-cased.
capitalize(s) == [i \in 1..Len(s) |-> IF i = 1 THEN upper(s[i]) ELSE lower(s[i])]

\* str.lower(), used to compare texts without regard to case.
lowercase(s) == [i \in 1..Len(s) |-> lower(s[i])]

isspace(c) == c = " "

RECURSIVE lstrip(_)
lstrip(s) == IF s # <<>> /\ isspace(Head(s)) THEN lstrip(Tail(s)) ELSE s

RECURSIVE rstrip(_)
rstrip(s) == IF s # <<>> /\ isspace(s[Len(s)]) THEN rstrip(SubSeq(s, 1, Len(s) - 1)) ELSE s

\* str.strip(): surrounding whitespace removed.
strip(s) == rstrip(lstrip(s))

\* text[a:b] for 0 <= a <= b <= len(text).
Slice(text, a, b) == SubSeq(text, a + 1, b)

-----------------------------------------------------------------------------
(* The element data. *)

\* Python's None where a number is expected.
None == -1
\* Python's None where a symbol is expected (no slice the parser takes is empty).
NoSymbol == <<>>

\* The eleneg attribute of molmass's elements, in hundredths, for every
\* element whose symbol some lookup of the inputs below can spell.
Pauling ==
    (<<"H">> :> 220) @@ (<<"H","e">> :> 0) @@ (<<"H","f">> :> 130) @@
    (<<"H","o">> :> 123) @@ (<<"F">> :> 398) @@ (<<"C">> :> 255) @@
    (<<"C","f">> :> 130) @@ (<<"C","l">> :> 316) @@ (<<"C","o">> :> 188) @@
    (<<"C","s">> :> 79) @@ (<<"N">> :> 304) @@ (<<"N","a">> :> 93) @@
    (<<"N","e">> :> 0) @@ (<<"O">> :> 344)

\* Elements whose eleneg the data source may leave out (getattr(..., None)).
MayLackData == {<<"C">>, <<"O">>}

\* The data sources considered: molmass's, with eleneg absent for `missing`.
ElementData(missing) == [s \in DOMAIN Pauling |-> IF s \in missing THEN None ELSE Pauling[s]]

_get_electronegativity(element_symbol) ==
    IF element_symbol = <<>> \/ ~isalpha(element_symbol)
    THEN None
    ELSE LET symbol_cap == capitalize(element_symbol)
         IN  IF symbol_cap \in DOMAIN ELEMENTS
             THEN ELEMENTS[symbol_cap]      \* getattr(el, 'eleneg', None)
             ELSE None                       \* KeyError

-----------------------------------------------------------------------------
(* _split_elements_for_en *)

MsgLength == "Input must contain one or two adjacent element symbols (e.g., 'Na', 'Cl', 'NaCl', 'HF')."
MsgNoFirst == "Could not identify a valid first element symbol starting with '{text[0]}'."
MsgOnlyOne == "Input contains only one element symbol. Expected two for EN difference."
MsgNoRemaining == "Found first element, but no characters remaining for the second."
MsgNoSecond == "Found '{first_el}', but could not identify a valid second element symbol starting at index {len(first_el)}."
MsgExtra == "Input contains extra characters after the two expected element symbols."

\* A ValueError: its message template and the values formatted into it.
ValueError(msg, symbols, index) == [msg |-> msg, symbols |-> symbols, index |-> index]

\* The outcome of a call of the parser: the list returned or the error
\* raised, with the locals first_el, second_el and current_pos at that point.
Returned(elements_found, first_el, second_el, current_pos) ==
    [status |-> "returned", elements |-> elements_found, error |-> ValueError("", <<>>, 0),
     first_el |-> first_el, second_el |-> second_el, current_pos |-> current_pos]
Raised(error, first_el, second_el, current_pos) ==
    [status |-> "raised", elements |-> <<>>, error |-> error,
     first_el |-> first_el, second_el |-> second_el, current_pos |-> current_pos]

\* FindSymbol with the one-letter lookup tried before the two-letter one.
FindSymbol_shortest_first(text, current_pos, n) ==
    IF current_pos + 1 <= n
       /\ _get_electronegativity(Slice(text, current_pos, current_pos + 1)) # None
    THEN Slice(text, current_pos, current_pos + 1)
    ELSE IF current_pos + 2 <= n
            /\ _get_electronegativity(Slice(text, current_pos, current_pos + 2)) # None
         THEN Slice(text, current_pos, current_pos + 2)
         ELSE NoSymbol

\* Lines 60-69 and 85-94: the symbol found at current_pos, two letters tried
\* before one; NoSymbol when neither has an electronegativity.
FindSymbol(text, current_pos, n) ==
    LET two == IF current_pos + 2 <= n
                  /\ _get_electronegativity(Slice(text, current_pos, current_pos + 2)) # None
               THEN Slice(text, current_pos, current_pos + 2)
               ELSE NoSymbol
    IN  IF two # NoSymbol THEN two
        ELSE IF current_pos + 1 <= n
                /\ _get_electronegativity(Slice(text, current_pos, current_pos + 1)) # None
             THEN Slice(text, current_pos, current_pos + 1)
             ELSE NoSymbol

\* LengthRejected with the limit one too low.
LengthRejected_limit_3(n) == n < 1 \/ n > 3

\* LengthRejected with no upper limit.
LengthRejected_no_limit(n) == n < 1

\* Line 52.
LengthRejected(n) == n < 1 \/ n > 4

\* Canonical without the call of capitalize().
Canonical_as_typed(el) == el

\* Lines 73 and 98: the symbol as appended to elements_found.
Canonical(el) == capitalize(el)

_split_elements_for_en(str) ==
    LET text == strip(str)
        n == Len(text)
    IN
    IF LengthRejected(n) THEN Raised(ValueError(MsgLength, <<>>, 0), NoSymbol, NoSymbol, 0)
    ELSE
    LET first_el == FindSymbol(text, 0, n)
        pos1 == Len(first_el)
    IN
    IF first_el = NoSymbol
    THEN Raised(ValueError(MsgNoFirst, << <<text[1]>> >>, 0), NoSymbol, NoSymbol, 0)
    ELSE IF pos1 = n
    THEN Raised(ValueError(MsgOnlyOne, <<>>, 0), first_el, NoSymbol, pos1)
    ELSE IF n - pos1 = 0
    THEN Raised(ValueError(MsgNoRemaining, <<>>, 0), first_el, NoSymbol, pos1)
    ELSE
    LET second_el == FindSymbol(text, pos1, n)
        pos2 == pos1 + Len(second_el)
    IN
    IF second_el = NoSymbol
    THEN Raised(ValueError(MsgNoSecond, <<first_el>>, Len(first_el)), first_el, NoSymbol, pos1)
    ELSE IF pos2 # n
    THEN Raised(ValueError(MsgExtra, <<>>, 0), first_el, second_el, pos2)
    ELSE Returned(<<Canonical(first_el), Canonical(second_el)>>, first_el, second_el, pos2)

-----------------------------------------------------------------------------
(* calculate_en_difference, lines 199-258, as a function of the field's text *)

\* Lines 236 and 237: the thresholds 0.4 and 1.7, in hundredths.
NonpolarMax == 40
IonicMin == 170

\* classify with the first comparison strict.
classify_strict(d) ==
    IF d < NonpolarMax THEN "Nonpolar Covalent"
    ELSE IF d < IonicMin THEN "Polar Covalent"
    ELSE "Ionic"

\* Lines 235-238.
classify(d) ==
    IF d <= NonpolarMax THEN "Nonpolar Covalent"
    ELSE IF d < IonicMin THEN "Polar Covalent"
    ELSE "Ionic"

abs(x) == IF x < 0 THEN -x ELSE x

MsgInternal == "Internal error: Element list not determined."
MsgMissingData == "Electronegativity data unavailable for: {', '.join(missing_en)}"

PromptEN == "Please enter two element symbols."
PromptMM == "Please enter a formula."
HeadInvalidInput == "Invalid Input:"
HeadInvalidFormula == "Invalid Formula:"
HeadUnexpected == "An unexpected error occurred.\nPlease check the input and logs."
HeadSymbols == "Symbols:"
HeadMass == "Molecular Mass:"
StyleNone == ""
StyleRed == "color: red;"

\* The text of a label: its leading line and the values formatted into it.
LabelText(head, error, symbols, values, number, bond) ==
    [head |-> head, error |-> error, symbols |-> symbols, values |-> values,
     number |-> number, bond |-> bond]
NoError == ValueError("", <<>>, 0)
PlainText(head) == LabelText(head, NoError, <<>>, <<>>, 0, "")
EmptyLabel == PlainText("")

\* A number formatted with a fixed count of decimals ("0.40", "18.015").
Formatted(digits, decimals) == [digits |-> digits, decimals |-> decimals]
NoText == [digits |-> 0, decimals |-> 0]

\* elements_list_for with the special case compared without regard to case.
elements_list_for_any_case(input_text) ==
    IF lowercase(input_text) = <<"c", "o">>
    THEN Returned(<< <<"C">>, <<"O">> >>, NoSymbol, NoSymbol, 0)
    ELSE _split_elements_for_en(input_text)

\* Lines 207-215: the list of two symbols, by the special case or the parser.
elements_list_for(input_text) ==
    IF input_text = <<"C", "O">>
    THEN Returned(<< <<"C">>, <<"O">> >>, NoSymbol, NoSymbol, 0)
    ELSE _split_elements_for_en(input_text)

\* What one run of the handler does: the branch it ends in, the label's
\* text and style when it returns, and the text it writes to the clipboard.
Effect(branch, text, style, wrote, clip, elements, bond) ==
    [branch |-> branch, text |-> text, style |-> style, wrote |-> wrote,
     clip |-> clip, elements |-> elements, bond |-> bond]

\* Lines 251-254.
InvalidInput(e, elements) ==
    Effect("ValueError", LabelText(HeadInvalidInput, e, <<>>, <<>>, 0, ""),
           StyleRed, FALSE, NoText, elements, "")

\* missing_en_of with the second test an elif of the first.
missing_en_of_elif(el1_sym, el2_sym, en1, en2) ==
    IF en1 = None THEN <<el1_sym>>
    ELSE IF en2 = None THEN <<el2_sym>> ELSE <<>>

\* Lines 228-230.
missing_en_of(el1_sym, el2_sym, en1, en2) ==
    (IF en1 = None THEN <<el1_sym>> ELSE <<>>) \o (IF en2 = None THEN <<el2_sym>> ELSE <<>>)

\* Lines 223-249.
en_of_elements(elements_list) ==
    LET el1_sym == elements_list[1]
        el2_sym == elements_list[2]
        en1 == _get_electronegativity(el1_sym)
        en2 == _get_electronegativity(el2_sym)
        missing_en == missing_en_of(el1_sym, el2_sym, en1, en2)
        difference == abs(en1 - en2)
    IN  IF missing_en # <<>>
        THEN InvalidInput(ValueError(MsgMissingData, missing_en, 0), elements_list)
        ELSE Effect("ok",
                    LabelText(HeadSymbols, NoError, elements_list, <<en1, en2>>,
                              difference, classify(difference)),
                    StyleNone, TRUE, Formatted(difference, 2), elements_list,
                    classify(difference))

en_calculation(field_text) ==
    LET input_text == strip(field_text)
    IN  IF input_text = <<>>
        THEN Effect("prompt", PlainText(PromptEN), StyleNone, FALSE, NoText, <<>>, "")
        ELSE LET parsed == elements_list_for(input_text)
             IN  IF parsed.status = "raised" THEN InvalidInput(parsed.error, <<>>)
                 ELSE IF parsed.elements = <<>>
                 THEN InvalidInput(ValueError(MsgInternal, <<>>, 0), <<>>)
                 ELSE en_of_elements(parsed.elements)

-----------------------------------------------------------------------------
(* calculate_mm, lines 164-185 *)

\* What Formula(input_text).mass may do: a mass (in thousandths, as
\* formatted by :.3f), a FormulaError, or another exception.
FormulaOutcomes ==
    { [kind |-> "mass", mass |-> 18015], [kind |-> "mass", mass |-> 116886],
      [kind |-> "FormulaError", mass |-> 0], [kind |-> "Exception", mass |-> 0] }

mm_calculation(field_text, formula) ==
    LET input_text == strip(field_text)
    IN  IF input_text = <<>>
        THEN Effect("prompt", PlainText(PromptMM), StyleNone, FALSE, NoText, <<>>, "")
        ELSE IF formula.kind = "mass"
        THEN Effect("ok", LabelText(HeadMass, NoError, <<>>, <<>>, formula.mass, ""),
                    StyleNone, TRUE, Formatted(formula.mass, 3), <<>>, "")
        ELSE IF formula.kind = "FormulaError"
        THEN Effect("FormulaError", PlainText(HeadInvalidFormula), StyleRed, FALSE, NoText, <<>>, "")
        ELSE Effect("Exception", PlainText(HeadUnexpected), StyleRed, FALSE, NoText, <<>>, "")

-----------------------------------------------------------------------------
(* Inputs *)

Alphabet == {"H", "F", "C", "O", "o", "X", " "}

ExtraInputs ==
    { <<"N","a","C","l">>, <<"H","e","N","e","X","x">>, <<"C","s">>,
      <<"c","o">>, <<"c","O">>, <<"X","x">>,
      <<"N","a","C","l","H">>, <<"N","a","C","l","H","e">>,
      <<"C","l","N","a">>, <<"N","a","X">> }

Inputs == (UNION {[1..k -> Alphabet] : k \in 0..MaxLen}) \cup ExtraInputs

\* Texts typed into the fields of the two screens.
ENInputs ==
    { <<>>, <<" ">>, <<"C","O">>, <<"C","o">>, <<" ","C","O"," ">>, <<"H","F">>,
      <<"N","a","C","l">>, <<"H","O">>, <<"O","H">>, <<"O","F">>, <<"X","x">>,
      <<"H","F","O","O">>, <<"H","e","N","e","X","x">> }
MMInputs == { <<>>, <<" ">>, <<"H","2","O">>, <<"2","N","a","C","l">>, <<"X","x">> }

NotRun == [status |-> "not run"]
Cleared == [input_field |-> <<>>, result_label |-> EmptyLabel, style |-> StyleNone]
NoCalc == [handler |-> "", branch |-> ""]

-----------------------------------------------------------------------------
(* Spec: the parser and the EN calculation applied to one text *)

Init ==
    /\ \E missing \in SUBSET MayLackData : ELEMENTS = ElementData(missing)
    /\ compound_str \in Inputs
    /\ split_result = NotRun
    /\ calc_result = NotRun
    /\ en_difference = 0
    /\ bond_type = ""
    /\ current_index = 0
    /\ mm_screen = Cleared
    /\ en_screen = Cleared
    /\ clipboard = NoText
    /\ last_calc = NoCalc

Split ==
    /\ split_result = NotRun
    /\ split_result' = _split_elements_for_en(compound_str)
    /\ UNCHANGED <<ELEMENTS, compound_str, calc_result, en_difference, bond_type,
                   current_index, mm_screen, en_screen, clipboard, last_calc>>

Calculate ==
    /\ calc_result = NotRun
    /\ calc_result' = en_calculation(compound_str)
    /\ UNCHANGED <<ELEMENTS, compound_str, split_result, en_difference, bond_type,
                   current_index, mm_screen, en_screen, clipboard, last_calc>>

Next == Split \/ Calculate

Spec == Init /\ [][Next]_vars

-----------------------------------------------------------------------------
(* SpecClassify: the classifier applied to one difference *)

InitClassify ==
    /\ ELEMENTS = ElementData({})
    /\ compound_str = <<>>
    /\ split_result = NotRun
    /\ calc_result = NotRun
    /\ en_difference \in 0..MaxDiff
    /\ bond_type = ""
    /\ current_index = 0
    /\ mm_screen = Cleared
    /\ en_screen = Cleared
    /\ clipboard = NoText
    /\ last_calc = NoCalc

Classify ==
    /\ bond_type = ""
    /\ bond_type' = classify(en_difference)
    /\ UNCHANGED <<ELEMENTS, compound_str, split_result, calc_result, en_difference,
                   current_index, mm_screen, en_screen, clipboard, last_calc>>

NextClassify == Classify

SpecClassify == InitClassify /\ [][NextClassify]_vars

-----------------------------------------------------------------------------
(* SpecApp: the window, its two screens and the clipboard *)

\* Lines 283-290: both screens built empty; the stack shows index 0, so the
\* show_mm_screen() of line 290 finds nothing to do.
InitApp ==
    /\ \E missing \in SUBSET MayLackData : ELEMENTS = ElementData(missing)
    /\ compound_str = <<>>
    /\ split_result = NotRun
    /\ calc_result = NotRun
    /\ en_difference = 0
    /\ bond_type = ""
    /\ current_index = 0
    /\ mm_screen = Cleared
    /\ en_screen = Cleared
    /\ clipboard = NoText
    /\ last_calc = NoCalc

pure == <<ELEMENTS, compound_str, split_result, calc_result, en_difference, bond_type>>

\* clear_fields without the reset of the style sheet.
clear_fields_keep_style(screen) ==
    [screen EXCEPT !.input_field = <<>>, !.result_label = EmptyLabel]

\* Lines 148-151.
clear_fields(screen) ==
    [screen EXCEPT !.input_field = <<>>, !.result_label = EmptyLabel, !.style = StyleNone]

\* The user edits the field of the screen on display.
EditMM ==
    /\ current_index = 0
    /\ \E s \in MMInputs : mm_screen' = [mm_screen EXCEPT !.input_field = s]
    /\ UNCHANGED <<pure, current_index, en_screen, clipboard, last_calc>>

EditEN ==
    /\ current_index = 1
    /\ \E s \in ENInputs : en_screen' = [en_screen EXCEPT !.input_field = s]
    /\ UNCHANGED <<pure, current_index, mm_screen, clipboard, last_calc>>

\* The label and the clipboard after a handler's run.
Shown(screen, effect) == [screen EXCEPT !.result_label = effect.text, !.style = effect.style]
\* Copied with the clipboard written in every branch.
Copied_always(clip, effect) == effect.clip
\* Lines 175-176 and 247-248: the clipboard is set in the success branch only.
Copied(clip, effect) == IF effect.wrote THEN effect.clip ELSE clip

calculate_mm ==
    /\ current_index = 0
    /\ \E formula \in FormulaOutcomes :
         LET effect == mm_calculation(mm_screen.input_field, formula)
         IN  /\ mm_screen' = Shown(mm_screen, effect)
             /\ clipboard' = Copied(clipboard, effect)
             /\ last_calc' = [handler |-> "calculate_mm", branch |-> effect.branch]
    /\ UNCHANGED <<pure, current_index, en_screen>>

calculate_en_difference ==
    /\ current_index = 1
    /\ LET effect == en_calculation(en_screen.input_field)
       IN  /\ en_screen' = Shown(en_screen, effect)
           /\ clipboard' = Copied(clipboard, effect)
           /\ last_calc' = [handler |-> "calculate_en_difference", branch |-> effect.branch]
    /\ UNCHANGED <<pure, current_index, mm_screen>>

show_mm_screen ==
    /\ IF current_index # 0
       THEN /\ current_index' = 0
            /\ en_screen' = clear_fields(en_screen)
       ELSE UNCHANGED <<current_index, en_screen>>
    /\ UNCHANGED <<pure, mm_screen, clipboard, last_calc>>

show_en_screen ==
    /\ IF current_index # 1
       THEN /\ current_index' = 1
            /\ mm_screen' = clear_fields(mm_screen)
       ELSE UNCHANGED <<current_index, mm_screen>>
    /\ UNCHANGED <<pure, en_screen, clipboard, last_calc>>

NextApp ==
    \/ EditMM
    \/ EditEN
    \/ calculate_mm
    \/ calculate_en_difference
    \/ show_mm_screen
    \/ show_en_screen

SpecApp == InitApp /\ [][NextApp]_vars

-----------------------------------------------------------------------------
(* Properties.  The parser's and the calculation's are stated under Spec,   *)
(* the classifier's under SpecClassify, the window's under SpecApp.         *)

\* The trimmed text and the acceptance test, as the properties state them.
Trimmed == strip(compound_str)
Accepted(s) == s \in DOMAIN ELEMENTS /\ ELEMENTS[s] # None
AcceptedAt(t, pos, len) == pos + len <= Len(t) /\ isalpha(Slice(t, pos, pos + len))
                           /\ Accepted(capitalize(Slice(t, pos, pos + len)))
\* Length of the greedy token of t at pos: 2 before 1, 0 when there is none.
GreedyLen(t, pos) == IF AcceptedAt(t, pos, 2) THEN 2 ELSE IF AcceptedAt(t, pos, 1) THEN 1 ELSE 0
SplitRan == split_result # NotRun
CalcRan == calc_result # NotRun
SymH == <<"H">>
SymF == <<"F">>
SymC == <<"C">>
SymO == <<"O">>

\* C1: resolving "HF" with _split_elements_for_en succeeds and returns the
\* two symbols H and F, in that order.
C1_HF_ReturnsHAndF ==
    (SplitRan /\ compound_str = <<"H", "F">>) =>
        /\ split_result.status = "returned"
        /\ split_result.elements = <<SymH, SymF>>

\* C2: the Carbon+Oxygen special case applies if and only if the trimmed
\* input is exactly "CO": that input yields (C, O); every other input gets
\* the general parser's outcome, so "Co", "co", "cO" and "Cs" fail with the
\* only-one-element reason.
C2_OverrideOnlyForExactCO ==
    (CalcRan /\ Trimmed # <<>>) =>
        LET general == _split_elements_for_en(Trimmed)
        IN  /\ Trimmed = <<"C", "O">> =>
                /\ calc_result.elements = <<SymC, SymO>>
                /\ general.status = "raised" /\ general.error.msg = MsgOnlyOne
            /\ Trimmed # <<"C", "O">> =>
                /\ general.status = "returned" =>
                     calc_result.elements = general.elements
                /\ general.status = "raised" =>
                     /\ calc_result.branch = "ValueError"
                     /\ calc_result.elements = <<>>
                     /\ calc_result.text.error = general.error
            /\ Trimmed \in {<<"C","o">>, <<"c","o">>, <<"c","O">>, <<"C","s">>} =>
                /\ calc_result.branch = "ValueError"
                /\ calc_result.text.error.msg = MsgOnlyOne

C2_Witness ==
    /\ CalcRan
    /\ compound_str = <<" ", "C", "O", " ">>
    /\ calc_result.branch = "ok"
    /\ calc_result.elements = <<SymC, SymO>>

\* Two greedy tokens are found from the left of the trimmed text and at
\* least one character remains.
TwoTokensAndMore ==
    LET k1 == GreedyLen(Trimmed, 0)
        k2 == GreedyLen(Trimmed, k1)
    IN  k1 > 0 /\ k2 > 0 /\ k1 + k2 < Len(Trimmed)

\* C3 as stated: for an input of any length, two valid tokens found from the
\* left and at least one character left over make the parser fail with the
\* trailing-characters reason and no other; so does "HeNeXx".
C3_TrailingAtAnyLength ==
    SplitRan =>
        /\ TwoTokensAndMore =>
             split_result.status = "raised" /\ split_result.error.msg = MsgExtra
        /\ compound_str = <<"H","e","N","e","X","x">> =>
             split_result.status = "raised" /\ split_result.error.msg = MsgExtra

\* C3 as amended: for a trimmed input of at most 4 characters, two valid
\* tokens found from the left and at least one character left over make the
\* parser fail with the trailing-characters reason and no other; a trimmed
\* input of more than 4 characters, such as "HeNeXx", fails with the length
\* check's reason before any token is looked for.
C3_TrailingUpToFour ==
    SplitRan =>
        /\ (Len(Trimmed) <= 4 /\ TwoTokensAndMore) =>
             split_result.status = "raised" /\ split_result.error.msg = MsgExtra
        /\ Len(Trimmed) > 4 =>
             /\ split_result.status = "raised"
             /\ split_result.error.msg = MsgLength
             /\ split_result.first_el = NoSymbol
        /\ (split_result.status = "raised" /\ split_result.error.msg = MsgExtra) =>
             Len(Trimmed) <= 4 /\ TwoTokensAndMore

C3_Witness ==
    /\ SplitRan
    /\ Len(Trimmed) = 4
    /\ TwoTokensAndMore
    /\ split_result.error.msg = MsgExtra

\* The reason of the condition that applies to the trimmed text, by the
\* five conditions of the taxonomy; "" when none applies.
ApplicableReason ==
    LET k1 == GreedyLen(Trimmed, 0)
        k2 == GreedyLen(Trimmed, k1)
    IN  IF Len(Trimmed) = 0 THEN MsgLength
        ELSE IF k1 = 0 THEN MsgNoFirst
        ELSE IF k1 = Len(Trimmed) THEN MsgOnlyOne
        ELSE IF k2 = 0 THEN MsgNoSecond
        ELSE IF k1 + k2 < Len(Trimmed) THEN MsgExtra
        ELSE ""

FiveReasons == {MsgLength, MsgNoFirst, MsgOnlyOne, MsgNoSecond, MsgExtra}

\* C4 as stated: every failing input is reported with exactly one of the
\* five reasons (empty input, no first element, only one element, no second
\* element, trailing characters), the one of the condition that applies; the
\* five are pairwise distinct and no other reason is ever reported.
C4_ReasonOfApplicableCondition ==
    SplitRan =>
        /\ Cardinality(FiveReasons) = 5
        /\ split_result.status = "raised" =>
             /\ split_result.error.msg \in FiveReasons
             /\ split_result.error.msg = ApplicableReason
        /\ split_result.status = "returned" => ApplicableReason = ""

\* C4 as amended: every failing input of at most 4 characters after
\* trimming is reported with exactly one of the five reasons, the one of the
\* condition that applies; an input of more than 4 characters after trimming
\* always fails, with the reason of the empty input (the length check has
\* one message for both); the five are pairwise distinct and no other reason
\* is ever reported.
C4_ReasonUpToFour ==
    SplitRan =>
        /\ Cardinality(FiveReasons) = 5
        /\ split_result.status = "raised" => split_result.error.msg \in FiveReasons
        /\ Len(Trimmed) <= 4 =>
             /\ split_result.status = "raised" => split_result.error.msg = ApplicableReason
             /\ split_result.status = "returned" => ApplicableReason = ""
        /\ Len(Trimmed) > 4 =>
             split_result.status = "raised" /\ split_result.error.msg = MsgLength

C4_Witness ==
    /\ SplitRan
    /\ Len(Trimmed) = 3
    /\ split_result.status = "raised"
    /\ split_result.error.msg = MsgNoSecond
    /\ split_result.error.symbols = <<SymC>>

\* C5: the classification of a difference d >= 0 is total with exactly one
\* label per d: nonpolar covalent iff d <= 0.4, polar covalent iff
\* 0.4 < d < 1.7, ionic iff d >= 1.7 (d in hundredths).
C5_ClassifyThresholds ==
    bond_type # "" =>
        /\ bond_type \in {"Nonpolar Covalent", "Polar Covalent", "Ionic"}
        /\ bond_type = "Nonpolar Covalent" <=> en_difference <= 40
        /\ bond_type = "Polar Covalent" <=> (40 < en_difference /\ en_difference < 170)
        /\ bond_type = "Ionic" <=> en_difference >= 170

C5_Witness == en_difference = 170 /\ bond_type = "Ionic"

IsCanonical(sym) ==
    /\ Len(sym) \in {1, 2}
    /\ IsUpperChar(sym[1])
    /\ Len(sym) = 2 => IsLowerChar(sym[2])

\* C7: a successful parse returns exactly two symbols, each 1 or 2
\* characters long, in canonical casing and accepted, and the first followed
\* by the second is the whole trimmed input when case is ignored.
C7_TwoSymbolsCoverInput ==
    (SplitRan /\ split_result.status = "returned") =>
        LET e == split_result.elements
        IN  /\ Len(e) = 2
            /\ \A i \in 1..2 : IsCanonical(e[i]) /\ Accepted(e[i])
            /\ lowercase(e[1] \o e[2]) = lowercase(Trimmed)
            /\ split_result.current_pos = Len(Trimmed)

C7_Witness ==
    /\ SplitRan
    /\ split_result.status = "returned"
    /\ Len(split_result.elements[1]) = 2
    /\ split_result.elements[1] \o split_result.elements[2] # Trimmed
    /\ Trimmed # compound_str

\* The symbols of a list that lack an electronegativity, in order.
Lacking(elements) == SelectSeq(elements, LAMBDA sym : ~Accepted(sym))

\* C8: no bond classification is computed when the electronegativity of
\* either resolved symbol is absent: the calculation fails with a
\* missing-data error naming exactly the symbols lacking a value, distinct
\* from every parse failure; a classification is produced only when both
\* values are present.
C8_NoClassificationWithoutData ==
    CalcRan =>
        /\ (calc_result.elements # <<>> /\ Lacking(calc_result.elements) # <<>>) =>
             /\ calc_result.bond = ""
             /\ calc_result.branch = "ValueError"
             /\ calc_result.text.error.msg = MsgMissingData
             /\ calc_result.text.error.symbols = Lacking(calc_result.elements)
        /\ MsgMissingData \notin FiveReasons \cup {MsgNoRemaining, MsgInternal}
        /\ calc_result.bond # "" =>
             /\ Len(calc_result.elements) = 2
             /\ Lacking(calc_result.elements) = <<>>
             /\ calc_result.branch = "ok"

C8_Witness ==
    /\ CalcRan
    /\ calc_result.branch = "ValueError"
    /\ calc_result.text.error.msg = MsgMissingData
    /\ calc_result.text.error.symbols = <<SymO>>
    /\ calc_result.bond = ""

\* C9: from the initial window state on, the screen that is not displayed
\* has an empty input field, an empty result label and no error style; a
\* switch leaves both screens empty, discarding what the other held; and a
\* request for the screen already displayed changes nothing.
HiddenScreenCleared ==
    /\ current_index \in {0, 1}
    /\ current_index = 0 => en_screen = Cleared
    /\ current_index = 1 => mm_screen = Cleared

C9_HiddenScreenIsCleared ==
    /\ []HiddenScreenCleared
    /\ [][ /\ current_index' # current_index =>
                (mm_screen' = Cleared /\ en_screen' = Cleared)
           /\ (show_mm_screen /\ current_index = 0) => UNCHANGED vars
           /\ (show_en_screen /\ current_index = 1) => UNCHANGED vars ]_vars

\* Back on the MM screen after an EN calculation that ended in an error.
C9_Witness ==
    /\ current_index = 0
    /\ last_calc = [handler |-> "calculate_en_difference", branch |-> "ValueError"]
    /\ en_screen = Cleared
    /\ mm_screen.input_field # <<>>

ErrorHeads == {HeadInvalidInput, HeadInvalidFormula, HeadUnexpected}
ErrorBranches == {"ValueError", "FormulaError", "Exception"}

\* C10: the clipboard is written only by a calculation that succeeds; one
\* that ends with the prompt or an error leaves it as it was; and after a
\* calculation the result label is red exactly when that calculation ended
\* in an error, which editing the field does not change.
C10_ClipboardOnlyOnSuccess ==
    [][ /\ clipboard' # clipboard =>
             /\ calculate_mm \/ calculate_en_difference
             /\ last_calc'.branch = "ok"
             /\ clipboard'.decimals = IF current_index = 0 THEN 3 ELSE 2
        /\ calculate_mm =>
             /\ mm_screen'.style = StyleRed <=> last_calc'.branch \in ErrorBranches
             /\ mm_screen'.style = StyleRed <=> mm_screen'.result_label.head \in ErrorHeads
             /\ last_calc'.branch # "ok" => clipboard' = clipboard
        /\ calculate_en_difference =>
             /\ en_screen'.style = StyleRed <=> last_calc'.branch \in ErrorBranches
             /\ en_screen'.style = StyleRed <=> en_screen'.result_label.head \in ErrorHeads
             /\ last_calc'.branch # "ok" => clipboard' = clipboard
        /\ (EditMM \/ EditEN) =>
             /\ mm_screen'.style = mm_screen.style
             /\ en_screen'.style = en_screen.style ]_vars

\* An EN calculation failed after an earlier one succeeded: red, clipboard kept.
C10_Witness ==
    /\ current_index = 1
    /\ last_calc = [handler |-> "calculate_en_difference", branch |-> "ValueError"]
    /\ en_screen.style = StyleRed
    /\ clipboard.decimals = 2

====
